---- MODULE Spec2Model ----
(***************************************************************************)
(* Model of the dxfeed event marshalling layer (src/dxfeed/src/lib.rs):    *)
(* the event type registry (EventType), the payload converters             *)
(* (EventData::try_get_event_data and the From impls of the text-bearing   *)
(* payloads) and the envelope constructor (Event::try_from_c).             *)
(*                                                                         *)
(* The library keeps no state between calls, so the state of the model is  *)
(* the call being made: which operation (op), the native inputs of the     *)
(* call (event_type, raw_sym, data), what the call returned (ret) and the  *)
(* native pointers the call dereferenced, in order (derefs).  The sample   *)
(* listener (src/samples/quote_sub_example/src/main.rs) adds the lines it  *)
(* wrote to its writer and to stderr (writer, errlog); delivered is the    *)
(* history of the callbacks the feed made.  Where invocations of           *)
(* Event::try_from_c overlap, calls holds each invocation's arguments,     *)
(* position and result, and frames the locals of the invocations.          *)
(***************************************************************************)
EXTENDS Integers, Sequences, FiniteSets, TLC

VARIABLES op, event_type, raw_sym, data, ret, derefs, delivered, writer, errlog,
          calls, frames

vars ==
    <<op, event_type, raw_sym, data, ret, derefs, delivered, writer, errlog,
      calls, frames>>

\* the call made on its own
call_vars == <<op, event_type, raw_sym, data, ret, derefs>>

\* overlapping invocations
thread_vars == <<calls, frames>>

\* what the listener of the sample keeps between callbacks
stream_vars == <<delivered, writer, errlog>>

NULL == [ptr |-> "null"]

(***************************************************************************)
(* Bounds of the model.                                                    *)
(***************************************************************************)
\* longest generated wide-character buffer, terminator included
MaxBuf == 2
\* invocations of Event::try_from_c that may overlap
MaxThreads == 2
\* callbacks the feed makes in one run of the sample listener
MaxEvents == 3
\* integer tags -MaxTag..MaxTag are tried besides the named ones
MaxTag == 40
\* scalar fields of a raw record take values built from 0..MaxScalar
MaxScalar == 1
\* raw flag fields take the values -MaxFlag..MaxFlag
MaxFlag == 2
\* scalar words of a plain native record
PlainWords == 3

(***************************************************************************)
(* Machine integers.  A c_int is its value; every c_int of the model lies  *)
(* in the 32 bit range.  A c_uint that may exceed that range (the unused    *)
(* mask) is the set of the positions of its set bits.                      *)
(***************************************************************************)
I32Bits == 32

\* shl_c_int numbering in sequence: a + n in the place of a << n
shl_c_int_sequential(a, n) == a + n

\* a << n on c_int, for shifts that stay below the sign bit
shl_c_int(a, n) == a * 2 ^ n

\* the set bits of a c_uint given by a value below 2^31
bits_c_uint(x) == {i \in 0..(I32Bits - 2) : (x \div 2 ^ i) % 2 = 1}

\* !a on c_uint
not_c_uint(a) == (0..(I32Bits - 1)) \ a

RECURSIVE sum_bits(_)
sum_bits(B) ==
    IF B = {} THEN 0
    ELSE LET i == CHOOSE j \in B : TRUE IN 2 ^ i + sum_bits(B \ {i})

\* `a as c_int` of a c_uint: the same 32 bits read in two's complement
as_c_int(a) ==
    IF (I32Bits - 1) \in a THEN -sum_bits(not_c_uint(a)) - 1 ELSE sum_bits(a)

(***************************************************************************)
(* dx_event_id_t of the native header, as bound by libdxfeed-sys: the      *)
(* position of each kind in native definition order.                       *)
(***************************************************************************)
dx_event_id_dx_eid_trade == 0
dx_event_id_dx_eid_quote == 1
dx_event_id_dx_eid_summary == 2
dx_event_id_dx_eid_profile == 3
dx_event_id_dx_eid_order == 4
dx_event_id_dx_eid_time_and_sale == 5
dx_event_id_dx_eid_candle == 6
dx_event_id_dx_eid_trade_eth == 7
dx_event_id_dx_eid_spread_order == 8
dx_event_id_dx_eid_greeks == 9
dx_event_id_dx_eid_theo_price == 10
dx_event_id_dx_eid_underlying == 11
dx_event_id_dx_eid_series == 12
dx_event_id_dx_eid_configuration == 13
dx_event_id_dx_eid_count == 14

(***************************************************************************)
(* Event type masks (lib.rs 13-40).                                        *)
(***************************************************************************)
DXF_ET_TRADE == shl_c_int(1, dx_event_id_dx_eid_trade)
DXF_ET_QUOTE == shl_c_int(1, dx_event_id_dx_eid_quote)
DXF_ET_SUMMARY == shl_c_int(1, dx_event_id_dx_eid_summary)
DXF_ET_PROFILE == shl_c_int(1, dx_event_id_dx_eid_profile)
DXF_ET_ORDER == shl_c_int(1, dx_event_id_dx_eid_order)
DXF_ET_TIME_AND_SALE == shl_c_int(1, dx_event_id_dx_eid_time_and_sale)
DXF_ET_CANDLE == shl_c_int(1, dx_event_id_dx_eid_candle)
DXF_ET_TRADE_ETH == shl_c_int(1, dx_event_id_dx_eid_trade_eth)
DXF_ET_SPREAD_ORDER == shl_c_int(1, dx_event_id_dx_eid_spread_order)
DXF_ET_GREEKS == shl_c_int(1, dx_event_id_dx_eid_greeks)
DXF_ET_THEO_PRICE == shl_c_int(1, dx_event_id_dx_eid_theo_price)
DXF_ET_UNDERLYING == shl_c_int(1, dx_event_id_dx_eid_underlying)
DXF_ET_SERIES == shl_c_int(1, dx_event_id_dx_eid_series)
DXF_ET_CONFIGURATION == shl_c_int(1, dx_event_id_dx_eid_configuration)
DXF_ET_UNUSED == not_c_uint(bits_c_uint(shl_c_int(1, dx_event_id_dx_eid_count) - 1))

(***************************************************************************)
(* Results.                                                                *)
(***************************************************************************)
Ok(v) == [ok |-> TRUE, val |-> v]
Err(e) == [ok |-> FALSE, err |-> e]

(***************************************************************************)
(* Text formatting: format!("{}", n) of an integer.                        *)
(***************************************************************************)
Digits == <<"0", "1", "2", "3", "4", "5", "6", "7", "8", "9">>

RECURSIVE fmt_unsigned(_)
fmt_unsigned(n) ==
    IF n < 10 THEN Digits[n + 1]
    ELSE fmt_unsigned(n \div 10) \o Digits[(n % 10) + 1]

\* the magnitude of a negative c_int is formatted digit by digit (the
\* magnitude of the least c_int is no c_int)
fmt_display_int(n) ==
    IF n >= 0 THEN fmt_unsigned(n)
    ELSE LET last == (10 - (n % 10)) % 10
             rest == IF n % 10 = 0 THEN -(n \div 10) ELSE -((n \div 10) + 1)
         IN  "-" \o (IF rest = 0 THEN "" ELSE fmt_unsigned(rest)) \o Digits[last + 1]

(***************************************************************************)
(* enum EventType (lib.rs 42-58): the 14 kinds, in declaration order.      *)
(***************************************************************************)
EventType ==
    { "EventType::Trade", "EventType::Quote", "EventType::Summary",
      "EventType::Profile", "EventType::Order", "EventType::TimeAndSale",
      "EventType::Candle", "EventType::TradeETH", "EventType::SpreadOrder",
      "EventType::Greeks", "EventType::TheoPrice", "EventType::Underlying",
      "EventType::Series", "EventType::Configuration" }

\* EventType_discriminant with the Greeks and TheoPrice discriminants
\* exchanged
EventType_discriminant_exchanged(kind) ==
    CASE kind = "EventType::Trade" -> DXF_ET_TRADE
      [] kind = "EventType::Quote" -> DXF_ET_QUOTE
      [] kind = "EventType::Summary" -> DXF_ET_SUMMARY
      [] kind = "EventType::Profile" -> DXF_ET_PROFILE
      [] kind = "EventType::Order" -> DXF_ET_ORDER
      [] kind = "EventType::TimeAndSale" -> DXF_ET_TIME_AND_SALE
      [] kind = "EventType::Candle" -> DXF_ET_CANDLE
      [] kind = "EventType::TradeETH" -> DXF_ET_TRADE_ETH
      [] kind = "EventType::SpreadOrder" -> DXF_ET_SPREAD_ORDER
      [] kind = "EventType::Greeks" -> DXF_ET_THEO_PRICE
      [] kind = "EventType::TheoPrice" -> DXF_ET_GREEKS
      [] kind = "EventType::Underlying" -> DXF_ET_UNDERLYING
      [] kind = "EventType::Series" -> DXF_ET_SERIES
      [] kind = "EventType::Configuration" -> DXF_ET_CONFIGURATION

\* the enum discriminant, `kind as c_int`
EventType_discriminant(kind) ==
    CASE kind = "EventType::Trade" -> DXF_ET_TRADE
      [] kind = "EventType::Quote" -> DXF_ET_QUOTE
      [] kind = "EventType::Summary" -> DXF_ET_SUMMARY
      [] kind = "EventType::Profile" -> DXF_ET_PROFILE
      [] kind = "EventType::Order" -> DXF_ET_ORDER
      [] kind = "EventType::TimeAndSale" -> DXF_ET_TIME_AND_SALE
      [] kind = "EventType::Candle" -> DXF_ET_CANDLE
      [] kind = "EventType::TradeETH" -> DXF_ET_TRADE_ETH
      [] kind = "EventType::SpreadOrder" -> DXF_ET_SPREAD_ORDER
      [] kind = "EventType::Greeks" -> DXF_ET_GREEKS
      [] kind = "EventType::TheoPrice" -> DXF_ET_THEO_PRICE
      [] kind = "EventType::Underlying" -> DXF_ET_UNDERLYING
      [] kind = "EventType::Series" -> DXF_ET_SERIES
      [] kind = "EventType::Configuration" -> DXF_ET_CONFIGURATION

\* EventType_try_from matching a tag by its lowest set bit instead of by
\* equality
EventType_try_from_by_bit(value) ==
    LET hit == {kind \in EventType :
                   /\ value > 0
                   /\ (value \div EventType_discriminant(kind)) % 2 = 1
                   /\ value % EventType_discriminant(kind) = 0}
    IN  IF hit # {} THEN Ok(CHOOSE kind \in hit : TRUE)
        ELSE Err("Unknown event type: " \o fmt_display_int(value))

\* impl TryFrom<c_int> for EventType: the arms are tried in order
EventType_try_from(value) ==
    IF value = DXF_ET_TRADE THEN Ok("EventType::Trade")
    ELSE IF value = DXF_ET_QUOTE THEN Ok("EventType::Quote")
    ELSE IF value = DXF_ET_SUMMARY THEN Ok("EventType::Summary")
    ELSE IF value = DXF_ET_PROFILE THEN Ok("EventType::Profile")
    ELSE IF value = DXF_ET_ORDER THEN Ok("EventType::Order")
    ELSE IF value = DXF_ET_TIME_AND_SALE THEN Ok("EventType::TimeAndSale")
    ELSE IF value = DXF_ET_CANDLE THEN Ok("EventType::Candle")
    ELSE IF value = DXF_ET_TRADE_ETH THEN Ok("EventType::TradeETH")
    ELSE IF value = DXF_ET_SPREAD_ORDER THEN Ok("EventType::SpreadOrder")
    ELSE IF value = DXF_ET_GREEKS THEN Ok("EventType::Greeks")
    ELSE IF value = DXF_ET_THEO_PRICE THEN Ok("EventType::TheoPrice")
    ELSE IF value = DXF_ET_UNDERLYING THEN Ok("EventType::Underlying")
    ELSE IF value = DXF_ET_SERIES THEN Ok("EventType::Series")
    ELSE IF value = DXF_ET_CONFIGURATION THEN Ok("EventType::Configuration")
    ELSE Err("Unknown event type: " \o fmt_display_int(value))

\* impl fmt::Display for EventType: write!(f, "{:?}", self), the derived
\* Debug of a field-less variant prints the variant's identifier
EventType_fmt(kind) ==
    CASE kind = "EventType::Trade" -> "Trade"
      [] kind = "EventType::Quote" -> "Quote"
      [] kind = "EventType::Summary" -> "Summary"
      [] kind = "EventType::Profile" -> "Profile"
      [] kind = "EventType::Order" -> "Order"
      [] kind = "EventType::TimeAndSale" -> "TimeAndSale"
      [] kind = "EventType::Candle" -> "Candle"
      [] kind = "EventType::TradeETH" -> "TradeETH"
      [] kind = "EventType::SpreadOrder" -> "SpreadOrder"
      [] kind = "EventType::Greeks" -> "Greeks"
      [] kind = "EventType::TheoPrice" -> "TheoPrice"
      [] kind = "EventType::Underlying" -> "Underlying"
      [] kind = "EventType::Series" -> "Series"
      [] kind = "EventType::Configuration" -> "Configuration"

\* EventType_to_string printing the magnitude of the tag in the placeholder
EventType_to_string_magnitude(value) ==
    LET r == EventType_try_from(value)
    IN  IF r.ok THEN EventType_fmt(r.val)
        ELSE "<Unknown>("
                 \o (IF value < 0 THEN fmt_display_int(-(value + 1)) ELSE fmt_display_int(value))
                 \o ")"

\* EventType::to_string(value: c_int)
EventType_to_string(value) ==
    LET r == EventType_try_from(value)
    IN  IF r.ok THEN EventType_fmt(r.val)
        ELSE "<Unknown>(" \o fmt_display_int(value) \o ")"

(***************************************************************************)
(* Wide-character strings.  A non-null dxf_const_string_t is modelled by   *)
(* the u32 code units found in memory from the address on; the native      *)
(* library terminates every string, so a buffer holds at least one 0.      *)
(***************************************************************************)
WideNul == 0

\* U32CString_from_ptr_str copying the terminator as well
U32CString_from_ptr_str_with_nul(p) ==
    LET n == CHOOSE i \in 1..Len(p) :
                 p[i] = WideNul /\ \A j \in 1..(i - 1) : p[j] # WideNul
    IN  SubSeq(p, 1, n)

\* U32CString::from_ptr_str(p): copies the units before the first nul
U32CString_from_ptr_str(p) ==
    LET n == CHOOSE i \in 1..Len(p) :
                 p[i] = WideNul /\ \A j \in 1..(i - 1) : p[j] # WideNul
    IN  SubSeq(p, 1, n - 1)

\* char::from_u32(u).is_some(): a Unicode scalar value
is_unicode_scalar(u) == u >= 0 /\ u <= 1114111 /\ ~(u >= 55296 /\ u <= 57343)

\* char::REPLACEMENT_CHARACTER
ReplacementChar == 65533

\* char::encode_utf8: the bytes a String stores for one char
encode_utf8(c) ==
    IF c < 128 THEN <<c>>
    ELSE IF c < 2048 THEN <<192 + (c \div 64), 128 + (c % 64)>>
    ELSE IF c < 65536
        THEN <<224 + (c \div 4096), 128 + ((c \div 64) % 64), 128 + (c % 64)>>
    ELSE <<240 + (c \div 262144), 128 + ((c \div 4096) % 64),
           128 + ((c \div 64) % 64), 128 + (c % 64)>>

\* the String (its UTF-8 bytes) collected from a sequence of chars
RECURSIVE String_from_chars(_)
String_from_chars(cs) ==
    IF cs = <<>> THEN <<>>
    ELSE encode_utf8(Head(cs)) \o String_from_chars(Tail(cs))

\* U32CString::to_string(): Err(Utf32Error) at the first unit that is no
\* char, else the String
U32CString_to_string(ws) ==
    LET bad == {i \in 1..Len(ws) : ~is_unicode_scalar(ws[i])}
    IN  IF bad # {}
        THEN Err([type |-> "Utf32Error",
                  index |-> (CHOOSE i \in bad : \A j \in bad : i <= j) - 1])
        ELSE Ok(String_from_chars(ws))

\* U32CString_to_string_lossy leaving out the units that are no char
U32CString_to_string_lossy_skipping(ws) ==
    String_from_chars(SelectSeq(ws, is_unicode_scalar))

\* U32CString::to_string_lossy(): every unit that is no char becomes U+FFFD
U32CString_to_string_lossy(ws) ==
    String_from_chars([i \in 1..Len(ws) |->
        IF is_unicode_scalar(ws[i]) THEN ws[i] ELSE ReplacementChar])

(***************************************************************************)
(* The payloads that own text (lib.rs 120-441).  A raw record is the       *)
(* record of the fields the native struct holds; a pointer field holds the *)
(* buffer it points to.                                                    *)
(***************************************************************************)
\* impl From<&dxf_profile_t> for ProfileEventData; each `as` cast of a
\* scalar is to the type the native field already has
ProfileEventData_from(c_profile) ==
    LET description ==
            U32CString_to_string_lossy(U32CString_from_ptr_str(c_profile.description))
        status_reason ==
            U32CString_to_string_lossy(U32CString_from_ptr_str(c_profile.status_reason))
    IN
        [ beta |-> c_profile.beta,
          eps |-> c_profile.eps,
          div_freq |-> c_profile.div_freq,
          exd_div_amount |-> c_profile.exd_div_amount,
          exd_div_date |-> c_profile.exd_div_date,
          high_52_week_price |-> c_profile.high_52_week_price,
          low_52_week_price |-> c_profile.low_52_week_price,
          shares |-> c_profile.shares,
          free_float |-> c_profile.free_float,
          high_limit_price |-> c_profile.high_limit_price,
          low_limit_price |-> c_profile.low_limit_price,
          halt_start_time |-> c_profile.halt_start_time,
          halt_end_time |-> c_profile.halt_end_time,
          raw_flags |-> c_profile.raw_flags,
          description |-> description,
          status_reason |-> status_reason,
          trading_status |-> c_profile.trading_status,
          ssr |-> c_profile.ssr ]

\* OrderEventData_from reading the union through its spread_leg alternative
\* and spelling the number as a decimal digit
OrderEventData_from_spread_leg(c_order) ==
    LET mm_or_spread == <<48 + c_order.bindgen_anon_1.spread_leg>>
    IN
        [ source |-> c_order.source,
          event_flags |-> c_order.event_flags,
          index |-> c_order.index,
          time |-> c_order.time,
          sequence |-> c_order.sequence,
          time_nanos |-> c_order.time_nanos,
          action |-> c_order.action,
          action_time |-> c_order.action_time,
          order_id |-> c_order.order_id,
          aux_order_id |-> c_order.aux_order_id,
          price |-> c_order.price,
          size |-> c_order.size,
          executed_size |-> c_order.executed_size,
          count |-> c_order.count,
          trade_id |-> c_order.trade_id,
          trade_price |-> c_order.trade_price,
          trade_size |-> c_order.trade_size,
          exchange_code |-> c_order.exchange_code,
          side |-> c_order.side,
          scope |-> c_order.scope,
          mm_or_spread |-> mm_or_spread ]

\* impl From<&dxf_order_t> for OrderEventData: the union is read through
\* its market_maker alternative
OrderEventData_from(c_order) ==
    LET mm_or_spread ==
            U32CString_to_string_lossy(
                U32CString_from_ptr_str(c_order.bindgen_anon_1.market_maker))
    IN
        [ source |-> c_order.source,
          event_flags |-> c_order.event_flags,
          index |-> c_order.index,
          time |-> c_order.time,
          sequence |-> c_order.sequence,
          time_nanos |-> c_order.time_nanos,
          action |-> c_order.action,
          action_time |-> c_order.action_time,
          order_id |-> c_order.order_id,
          aux_order_id |-> c_order.aux_order_id,
          price |-> c_order.price,
          size |-> c_order.size,
          executed_size |-> c_order.executed_size,
          count |-> c_order.count,
          trade_id |-> c_order.trade_id,
          trade_price |-> c_order.trade_price,
          trade_size |-> c_order.trade_size,
          exchange_code |-> c_order.exchange_code,
          side |-> c_order.side,
          scope |-> c_order.scope,
          mm_or_spread |-> mm_or_spread ]

\* impl From<&dxf_time_and_sale_t> for TimeAndSaleData
TimeAndSaleData_from(c_time_and_sale) ==
    LET exchange_sale_conditions ==
            U32CString_to_string_lossy(
                U32CString_from_ptr_str(c_time_and_sale.exchange_sale_conditions))
        buyer ==
            U32CString_to_string_lossy(U32CString_from_ptr_str(c_time_and_sale.buyer))
        seller ==
            U32CString_to_string_lossy(U32CString_from_ptr_str(c_time_and_sale.seller))
    IN
        [ event_flags |-> c_time_and_sale.event_flags,
          index |-> c_time_and_sale.index,
          time |-> c_time_and_sale.time,
          exchange_code |-> c_time_and_sale.exchange_code,
          price |-> c_time_and_sale.price,
          size |-> c_time_and_sale.size,
          bid_price |-> c_time_and_sale.bid_price,
          ask_price |-> c_time_and_sale.ask_price,
          exchange_sale_conditions |-> exchange_sale_conditions,
          raw_flags |-> c_time_and_sale.raw_flags,
          buyer |-> buyer,
          seller |-> seller,
          side |-> c_time_and_sale.side,
          kind |-> c_time_and_sale.type_,
          is_valid_tick |-> c_time_and_sale.is_valid_tick > 0,
          is_eth_trade |-> c_time_and_sale.is_eth_trade > 0,
          trade_through_exempt |-> c_time_and_sale.trade_through_exempt,
          is_spread_leg |-> c_time_and_sale.is_spread_leg > 0,
          scope |-> c_time_and_sale.scope ]

\* impl From<&dx_spread_order_t> for SpreadOrderData
SpreadOrderData_from(c_spread_order) ==
    LET spread_symbol ==
            U32CString_to_string_lossy(
                U32CString_from_ptr_str(c_spread_order.spread_symbol))
    IN
        [ index |-> c_spread_order.index,
          time |-> c_spread_order.time,
          time_nanos |-> c_spread_order.time_nanos,
          sequence |-> c_spread_order.sequence,
          action_time |-> c_spread_order.action_time,
          order_id |-> c_spread_order.order_id,
          aux_order_id |-> c_spread_order.aux_order_id,
          price |-> c_spread_order.price,
          size |-> c_spread_order.size,
          executed_size |-> c_spread_order.executed_size,
          count |-> c_spread_order.count,
          flags |-> c_spread_order.flags,
          trade_id |-> c_spread_order.trade_id,
          trade_price |-> c_spread_order.trade_price,
          trade_size |-> c_spread_order.trade_size,
          spread_symbol |-> spread_symbol ]

\* impl From<&dxf_configuration_t> for ConfigurationData
ConfigurationData_from(c_config) ==
    LET object == U32CString_to_string_lossy(U32CString_from_ptr_str(c_config.object))
    IN
        [ version |-> c_config.version,
          object |-> object ]

\* clone that leaves the first field at its default
clone_first_default(c_record) ==
    [f \in DOMAIN c_record |-> IF f = 1 THEN 0 ELSE c_record[f]]

\* #[derive(Clone)] of a plain native record: a copy of every field
clone(c_record) == [f \in DOMAIN c_record |-> c_record[f]]

(***************************************************************************)
(* enum EventData (lib.rs 455-567): a variant and the payload it holds.    *)
(***************************************************************************)
EventData(variant, payload) == [variant |-> variant, payload |-> payload]

\* EventData::get_event_type(&self)
get_event_type(self) ==
    CASE self.variant = "EventData::Trade" -> DXF_ET_TRADE
      [] self.variant = "EventData::Quote" -> DXF_ET_QUOTE
      [] self.variant = "EventData::Summary" -> DXF_ET_SUMMARY
      [] self.variant = "EventData::Profile" -> DXF_ET_PROFILE
      [] self.variant = "EventData::Order" -> DXF_ET_ORDER
      [] self.variant = "EventData::TimeAndSale" -> DXF_ET_TIME_AND_SALE
      [] self.variant = "EventData::Candle" -> DXF_ET_CANDLE
      [] self.variant = "EventData::TradeETH" -> DXF_ET_TRADE_ETH
      [] self.variant = "EventData::SpreadOrder" -> DXF_ET_SPREAD_ORDER
      [] self.variant = "EventData::Greeks" -> DXF_ET_GREEKS
      [] self.variant = "EventData::TheoPrice" -> DXF_ET_THEO_PRICE
      [] self.variant = "EventData::Underlying" -> DXF_ET_UNDERLYING
      [] self.variant = "EventData::Series" -> DXF_ET_SERIES
      [] self.variant = "EventData::Configuration" -> DXF_ET_CONFIGURATION

\* impl<T: AsRef<EventData>> From<T> for EventType
EventType_from(event) ==
    CASE event.variant = "EventData::Trade" -> "EventType::Trade"
      [] event.variant = "EventData::Quote" -> "EventType::Quote"
      [] event.variant = "EventData::Summary" -> "EventType::Summary"
      [] event.variant = "EventData::Profile" -> "EventType::Profile"
      [] event.variant = "EventData::Order" -> "EventType::Order"
      [] event.variant = "EventData::TimeAndSale" -> "EventType::TimeAndSale"
      [] event.variant = "EventData::Candle" -> "EventType::Candle"
      [] event.variant = "EventData::TradeETH" -> "EventType::TradeETH"
      [] event.variant = "EventData::SpreadOrder" -> "EventType::SpreadOrder"
      [] event.variant = "EventData::Greeks" -> "EventType::Greeks"
      [] event.variant = "EventData::TheoPrice" -> "EventType::TheoPrice"
      [] event.variant = "EventData::Underlying" -> "EventType::Underlying"
      [] event.variant = "EventData::Series" -> "EventType::Series"
      [] event.variant = "EventData::Configuration" -> "EventType::Configuration"

\* try_get_event_data whose TradeETH arm builds the Trade variant
try_get_event_data_trade_for_eth(tag, rec) ==
    IF tag = DXF_ET_TRADE THEN Ok(EventData("EventData::Trade", clone(rec)))
    ELSE IF tag = DXF_ET_QUOTE THEN Ok(EventData("EventData::Quote", clone(rec)))
    ELSE IF tag = DXF_ET_SUMMARY THEN Ok(EventData("EventData::Summary", clone(rec)))
    ELSE IF tag = DXF_ET_PROFILE
        THEN Ok(EventData("EventData::Profile", ProfileEventData_from(rec)))
    ELSE IF tag = DXF_ET_ORDER
        THEN Ok(EventData("EventData::Order", OrderEventData_from(rec)))
    ELSE IF tag = DXF_ET_TIME_AND_SALE
        THEN Ok(EventData("EventData::TimeAndSale", TimeAndSaleData_from(rec)))
    ELSE IF tag = DXF_ET_CANDLE THEN Ok(EventData("EventData::Candle", clone(rec)))
    ELSE IF tag = DXF_ET_TRADE_ETH THEN Ok(EventData("EventData::Trade", clone(rec)))
    ELSE IF tag = DXF_ET_SPREAD_ORDER
        THEN Ok(EventData("EventData::SpreadOrder", SpreadOrderData_from(rec)))
    ELSE IF tag = DXF_ET_GREEKS THEN Ok(EventData("EventData::Greeks", clone(rec)))
    ELSE IF tag = DXF_ET_THEO_PRICE THEN Ok(EventData("EventData::TheoPrice", clone(rec)))
    ELSE IF tag = DXF_ET_UNDERLYING
        THEN Ok(EventData("EventData::Underlying", clone(rec)))
    ELSE IF tag = DXF_ET_SERIES THEN Ok(EventData("EventData::Series", clone(rec)))
    ELSE IF tag = DXF_ET_CONFIGURATION
        THEN Ok(EventData("EventData::Configuration", ConfigurationData_from(rec)))
    ELSE Err([type |-> "Invalid", tag |-> tag])

\* EventData::try_get_event_data(event_type, data): the arms are tried in
\* order, each reads *data through the record type of its kind
try_get_event_data(tag, rec) ==
    IF tag = DXF_ET_TRADE THEN Ok(EventData("EventData::Trade", clone(rec)))
    ELSE IF tag = DXF_ET_QUOTE THEN Ok(EventData("EventData::Quote", clone(rec)))
    ELSE IF tag = DXF_ET_SUMMARY THEN Ok(EventData("EventData::Summary", clone(rec)))
    ELSE IF tag = DXF_ET_PROFILE
        THEN Ok(EventData("EventData::Profile", ProfileEventData_from(rec)))
    ELSE IF tag = DXF_ET_ORDER
        THEN Ok(EventData("EventData::Order", OrderEventData_from(rec)))
    ELSE IF tag = DXF_ET_TIME_AND_SALE
        THEN Ok(EventData("EventData::TimeAndSale", TimeAndSaleData_from(rec)))
    ELSE IF tag = DXF_ET_CANDLE THEN Ok(EventData("EventData::Candle", clone(rec)))
    ELSE IF tag = DXF_ET_TRADE_ETH THEN Ok(EventData("EventData::TradeETH", clone(rec)))
    ELSE IF tag = DXF_ET_SPREAD_ORDER
        THEN Ok(EventData("EventData::SpreadOrder", SpreadOrderData_from(rec)))
    ELSE IF tag = DXF_ET_GREEKS THEN Ok(EventData("EventData::Greeks", clone(rec)))
    ELSE IF tag = DXF_ET_THEO_PRICE THEN Ok(EventData("EventData::TheoPrice", clone(rec)))
    ELSE IF tag = DXF_ET_UNDERLYING
        THEN Ok(EventData("EventData::Underlying", clone(rec)))
    ELSE IF tag = DXF_ET_SERIES THEN Ok(EventData("EventData::Series", clone(rec)))
    ELSE IF tag = DXF_ET_CONFIGURATION
        THEN Ok(EventData("EventData::Configuration", ConfigurationData_from(rec)))
    ELSE Err([type |-> "Invalid", tag |-> tag])

\* Event::new(sym, data)
Event_new(sym, event_data) == [sym |-> sym, data |-> event_data]

\* try_from_c decoding the symbol with to_string_lossy
try_from_c_lossy_symbol(tag, sym_ptr, rec) ==
    LET c_sym == U32CString_from_ptr_str(sym_ptr)
        sym == U32CString_to_string_lossy(c_sym)
        event_data == try_get_event_data(tag, rec)
    IN  IF ~event_data.ok THEN Err(event_data.err)
        ELSE Ok(Event_new(sym, event_data.val))

\* try_from_c reporting a failed conversion as Error::Unknown
try_from_c_unknown_error(tag, sym_ptr, rec) ==
    LET c_sym == U32CString_from_ptr_str(sym_ptr)
        sym == U32CString_to_string(c_sym)
    IN  IF ~sym.ok THEN Err(sym.err)
        ELSE LET event_data == try_get_event_data(tag, rec)
             IN  IF ~event_data.ok THEN Err([type |-> "Unknown"])
                 ELSE Ok(Event_new(sym.val, event_data.val))

\* try_from_c resolving the tag before it decodes the symbol
try_from_c_tag_first(tag, sym_ptr, rec) ==
    IF ~EventType_try_from(tag).ok THEN Err([type |-> "Invalid", tag |-> tag])
    ELSE LET c_sym == U32CString_from_ptr_str(sym_ptr)
             sym == U32CString_to_string(c_sym)
         IN  IF ~sym.ok THEN Err(sym.err)
             ELSE LET event_data == try_get_event_data(tag, rec)
                  IN  IF ~event_data.ok THEN Err(event_data.err)
                      ELSE Ok(Event_new(sym.val, event_data.val))

\* Event::try_from_c(event_type, raw_sym, data): `?` returns the first error
try_from_c(tag, sym_ptr, rec) ==
    LET c_sym == U32CString_from_ptr_str(sym_ptr)
        sym == U32CString_to_string(c_sym)
    IN  IF ~sym.ok THEN Err(sym.err)
        ELSE LET event_data == try_get_event_data(tag, rec)
             IN  IF ~event_data.ok THEN Err(event_data.err)
                 ELSE Ok(Event_new(sym.val, event_data.val))

(***************************************************************************)
(* The native pointers a call dereferences, in the order the code does:    *)
(* which pointer, and the type it is read as.                              *)
(***************************************************************************)
Deref(ptr, layout) == [ptr |-> ptr, layout |-> layout]

\* the U32CString::from_ptr_str calls of the From impls
ProfileEventData_from_derefs ==
    <<Deref("data.description", "u32"), Deref("data.status_reason", "u32")>>

OrderEventData_from_derefs ==
    <<Deref("data.bindgen_anon_1.market_maker", "u32")>>

TimeAndSaleData_from_derefs ==
    <<Deref("data.exchange_sale_conditions", "u32"), Deref("data.buyer", "u32"),
      Deref("data.seller", "u32")>>

SpreadOrderData_from_derefs == <<Deref("data.spread_symbol", "u32")>>

ConfigurationData_from_derefs == <<Deref("data.object", "u32")>>

\* EventData::try_get_event_data: each arm reads *data as the record type of
\* its kind, the default arm reads nothing
try_get_event_data_derefs(tag) ==
    IF tag = DXF_ET_TRADE THEN <<Deref("data", "dxf_trade_t")>>
    ELSE IF tag = DXF_ET_QUOTE THEN <<Deref("data", "dxf_quote_t")>>
    ELSE IF tag = DXF_ET_SUMMARY THEN <<Deref("data", "dxf_summary_t")>>
    ELSE IF tag = DXF_ET_PROFILE
        THEN <<Deref("data", "dxf_profile_t")>> \o ProfileEventData_from_derefs
    ELSE IF tag = DXF_ET_ORDER
        THEN <<Deref("data", "dxf_order_t")>> \o OrderEventData_from_derefs
    ELSE IF tag = DXF_ET_TIME_AND_SALE
        THEN <<Deref("data", "dxf_time_and_sale_t")>> \o TimeAndSaleData_from_derefs
    ELSE IF tag = DXF_ET_CANDLE THEN <<Deref("data", "dxf_candle_t")>>
    ELSE IF tag = DXF_ET_TRADE_ETH THEN <<Deref("data", "dxf_trade_eth_t")>>
    ELSE IF tag = DXF_ET_SPREAD_ORDER
        THEN <<Deref("data", "dx_spread_order")>> \o SpreadOrderData_from_derefs
    ELSE IF tag = DXF_ET_GREEKS THEN <<Deref("data", "dxf_greeks_t")>>
    ELSE IF tag = DXF_ET_THEO_PRICE THEN <<Deref("data", "dxf_theo_price_t")>>
    ELSE IF tag = DXF_ET_UNDERLYING THEN <<Deref("data", "dxf_underlying_t")>>
    ELSE IF tag = DXF_ET_SERIES THEN <<Deref("data", "dxf_series_t")>>
    ELSE IF tag = DXF_ET_CONFIGURATION
        THEN <<Deref("data", "dxf_configuration_t")>> \o ConfigurationData_from_derefs
    ELSE <<>>

\* try_from_c converting the record before it looks at the decoded symbol
try_from_c_derefs_record_first(tag, sym_ptr) ==
    <<Deref("raw_sym", "u32")>> \o try_get_event_data_derefs(tag)

\* Event::try_from_c: the symbol is read first; the record is converted
\* only when `?` did not return on the symbol
try_from_c_derefs(tag, sym_ptr) ==
    <<Deref("raw_sym", "u32")>>
        \o (IF ~U32CString_to_string(U32CString_from_ptr_str(sym_ptr)).ok
            THEN <<>>
            ELSE try_get_event_data_derefs(tag))

(***************************************************************************)
(* The native pointers a returned value still refers to.  Every value the  *)
(* library builds is copied out of native memory: U32CString::from_ptr_str *)
(* copies the units into a buffer of its own, to_string and to_string_lossy*)
(* build a String from that buffer, clone copies a record without          *)
(* pointers, and an Error holds an integer at most.                        *)
(***************************************************************************)
\* U32CString_from_ptr_str_retains keeping a view of the units at ptr
U32CString_from_ptr_str_retains_view(ptr) == {ptr}

\* U32CString::from_ptr_str(ptr): the U32CString owns a copy of the units
U32CString_from_ptr_str_retains(ptr) == {}

\* EventData::try_get_event_data: what the payload of a tag keeps
try_get_event_data_retains(tag) ==
    IF tag = DXF_ET_PROFILE
        THEN U32CString_from_ptr_str_retains("data.description")
                 \cup U32CString_from_ptr_str_retains("data.status_reason")
    ELSE IF tag = DXF_ET_ORDER
        THEN U32CString_from_ptr_str_retains("data.bindgen_anon_1.market_maker")
    ELSE IF tag = DXF_ET_TIME_AND_SALE
        THEN U32CString_from_ptr_str_retains("data.exchange_sale_conditions")
                 \cup U32CString_from_ptr_str_retains("data.buyer")
                 \cup U32CString_from_ptr_str_retains("data.seller")
    ELSE IF tag = DXF_ET_SPREAD_ORDER
        THEN U32CString_from_ptr_str_retains("data.spread_symbol")
    ELSE IF tag = DXF_ET_CONFIGURATION
        THEN U32CString_from_ptr_str_retains("data.object")
    ELSE {}

\* Event::try_from_c: what the returned Result keeps
try_from_c_retains(tag, result) ==
    IF result.ok
    THEN U32CString_from_ptr_str_retains("raw_sym") \cup try_get_event_data_retains(tag)
    ELSE {}

(***************************************************************************)
(* The native side: the inputs the feed library hands to a call.           *)
(***************************************************************************)
\* code units a generated buffer is made of: the terminator, 'A', and a
\* lone surrogate (no char)
Units == {WideNul, 65, 55296}

\* "AAPL", terminated
WideAAPL == <<65, 65, 80, 76, WideNul>>

\* 'L', a unit beyond U+10FFFF (no char), 'A', terminated
WideBeyond == <<76, 1114112, 65, WideNul>>

\* chars of two, three and four UTF-8 bytes, terminated, and a unit after
\* the terminator
WideMulti == <<233, 8364, 128512, WideNul, 65>>

\* every terminated buffer of at most MaxBuf units, and the three above
Buffers ==
    { b \in UNION {[1..n -> Units] : n \in 1..MaxBuf} : b[Len(b)] = WideNul }
        \cup {WideAAPL, WideBeyond, WideMulti}

\* the scalar fields of the native records, in declaration order
profile_scalars ==
    <<"beta", "eps", "div_freq", "exd_div_amount", "exd_div_date",
      "high_52_week_price", "low_52_week_price", "shares", "free_float",
      "high_limit_price", "low_limit_price", "halt_start_time",
      "halt_end_time", "raw_flags", "trading_status", "ssr">>

order_scalars ==
    <<"source", "event_flags", "index", "time", "sequence", "time_nanos",
      "action", "action_time", "order_id", "aux_order_id", "price", "size",
      "executed_size", "count", "trade_id", "trade_price", "trade_size",
      "exchange_code", "side", "scope">>

time_and_sale_scalars ==
    <<"event_flags", "index", "time", "exchange_code", "price", "size",
      "bid_price", "ask_price", "raw_flags", "side", "type_",
      "trade_through_exempt", "scope">>

spread_order_scalars ==
    <<"index", "time", "time_nanos", "sequence", "action_time", "order_id",
      "aux_order_id", "price", "size", "executed_size", "count", "flags",
      "trade_id", "trade_price", "trade_size">>

configuration_scalars == <<"version">>

\* fills the i-th scalar field: a value per field and seed, no two fields
\* of a record alike
scalar_val(seed, i) == (MaxScalar + 1) * i + seed

scalar_part(names, seed) ==
    [f \in {names[i] : i \in 1..Len(names)} |->
        scalar_val(seed, CHOOSE i \in 1..Len(names) : names[i] = f)]

Seeds == 0..MaxScalar

\* raw dxf_bool_t values: dxf_bool_t is a C int
FlagVals == (-MaxFlag)..MaxFlag

\* a plain native record (no pointer inside): PlainWords scalar words
PlainRecords == [1..PlainWords -> (-MaxScalar)..MaxScalar]

ProfileRecords ==
    { scalar_part(profile_scalars, seed)
        @@ [description |-> d, status_reason |-> r] :
        seed \in Seeds, d \in Buffers, r \in Buffers }

OrderRecords ==
    { scalar_part(order_scalars, seed)
        @@ [bindgen_anon_1 |-> [market_maker |-> m]] :
        seed \in Seeds, m \in Buffers }

\* memory that holds no terminator up to where the model looks
Unterminated == {<<65>>, <<55296, 65>>}

\* the numbers the producer stores in the spread_leg alternative
SpreadLegs == 0..MaxScalar

\* the Order union by what each alternative reads from its one storage
\* word: market_maker is what the word, taken as a pointer, points at and
\* spread_leg the word taken as a number; populated is the alternative the
\* producer wrote.  A number taken as a pointer points anywhere.
OrderUnions ==
    { [populated |-> "market_maker", market_maker |-> m, spread_leg |-> n] :
        m \in Buffers, n \in SpreadLegs }
    \cup
    { [populated |-> "spread_leg", market_maker |-> m, spread_leg |-> n] :
        m \in Buffers \cup Unterminated, n \in SpreadLegs }

OrderUnionRecords ==
    { scalar_part(order_scalars, seed) @@ [bindgen_anon_1 |-> u] :
        seed \in Seeds, u \in OrderUnions }

\* the process killed by a read of unmapped memory
Segfault == [signal |-> "SIGSEGV"]

\* what a scan for the terminator from an address can read: the buffer
\* there, or, past memory without a terminator, whatever follows it
wide_in_memory(p) ==
    IF \E i \in 1..Len(p) : p[i] = WideNul THEN {p}
    ELSE {p \o g : g \in Buffers}

\* the records an Order conversion can see for a raw record
order_as_read(rec) ==
    { [rec EXCEPT !.bindgen_anon_1.market_maker = seen] :
        seen \in wide_in_memory(rec.bindgen_anon_1.market_maker) }

\* a scan that leaves the memory the model looks at can also fault
scan_faults(rec) ==
    IF \A i \in 1..Len(rec.bindgen_anon_1.market_maker) :
           rec.bindgen_anon_1.market_maker[i] # WideNul
    THEN {Segfault} ELSE {}

time_and_sale_record(seed, flags, texts) ==
    scalar_part(time_and_sale_scalars, seed)
        @@ [is_valid_tick |-> flags[1], is_eth_trade |-> flags[2],
            is_spread_leg |-> flags[3], exchange_sale_conditions |-> texts[1],
            buyer |-> texts[2], seller |-> texts[3]]

\* every combination of the three texts, and every combination of the three
\* flags
TimeAndSaleRecords ==
    { time_and_sale_record(0, <<1, 0, 2>>, texts) :
        texts \in Buffers \X Buffers \X Buffers }
    \cup
    { time_and_sale_record(seed, flags, <<WideAAPL, <<WideNul>>, WideMulti>>) :
        seed \in Seeds, flags \in FlagVals \X FlagVals \X FlagVals }

SpreadOrderRecords ==
    { scalar_part(spread_order_scalars, seed) @@ [spread_symbol |-> t] :
        seed \in Seeds, t \in Buffers }

ConfigurationRecords ==
    { scalar_part(configuration_scalars, seed) @@ [object |-> t] :
        seed \in Seeds, t \in Buffers }

PlainTags ==
    { DXF_ET_TRADE, DXF_ET_QUOTE, DXF_ET_SUMMARY, DXF_ET_CANDLE, DXF_ET_TRADE_ETH,
      DXF_ET_GREEKS, DXF_ET_THEO_PRICE, DXF_ET_UNDERLYING, DXF_ET_SERIES }

TextTags ==
    { DXF_ET_PROFILE, DXF_ET_ORDER, DXF_ET_TIME_AND_SALE, DXF_ET_SPREAD_ORDER,
      DXF_ET_CONFIGURATION }

\* tags the native library does not define: none, negative, two kinds at
\* once, the first unused bit, the unused mask, the ends of c_int
OtherTags ==
    { 0, -1, DXF_ET_TRADE + DXF_ET_QUOTE, DXF_ET_ORDER + DXF_ET_CONFIGURATION,
      shl_c_int(1, dx_event_id_dx_eid_count), as_c_int(DXF_ET_UNUSED),
      as_c_int(0..(I32Bits - 2)), as_c_int({I32Bits - 1}) }

\* the record the native library passes with a tag: of the tag's layout;
\* with a tag it does not define, nothing is known of the pointer
RawRecords(tag) ==
    IF tag \in PlainTags THEN PlainRecords
    ELSE IF tag = DXF_ET_PROFILE THEN ProfileRecords
    ELSE IF tag = DXF_ET_ORDER THEN OrderRecords
    ELSE IF tag = DXF_ET_TIME_AND_SALE THEN TimeAndSaleRecords
    ELSE IF tag = DXF_ET_SPREAD_ORDER THEN SpreadOrderRecords
    ELSE IF tag = DXF_ET_CONFIGURATION THEN ConfigurationRecords
    ELSE {NULL} \cup {r \in PlainRecords : \A i \in DOMAIN r : r[i] = 0}

CallbackTags == PlainTags \cup TextTags \cup OtherTags

\* integers given to the registry
TagInputs == CallbackTags \cup ((-MaxTag)..MaxTag)

\* callbacks the feed makes in the runs that follow several of them: a
\* Quote of the sample's subscription, a Profile with text, a Trade, and the
\* malformed ones (symbol that is no text, tag that is no kind, both)
SampleEvents ==
    { [tag |-> DXF_ET_QUOTE, sym_ptr |-> WideAAPL, rec |-> [i \in 1..PlainWords |-> 1]],
      [tag |-> DXF_ET_TRADE, sym_ptr |-> WideMulti, rec |-> [i \in 1..PlainWords |-> 0]],
      [tag |-> DXF_ET_PROFILE, sym_ptr |-> <<65, WideNul>>,
       rec |-> scalar_part(profile_scalars, 0)
                   @@ [description |-> WideBeyond, status_reason |-> WideAAPL]],
      [tag |-> DXF_ET_QUOTE, sym_ptr |-> WideBeyond, rec |-> [i \in 1..PlainWords |-> 1]],
      [tag |-> 0, sym_ptr |-> WideAAPL, rec |-> NULL],
      [tag |-> as_c_int(DXF_ET_UNUSED), sym_ptr |-> WideBeyond, rec |-> NULL] }

\* the threads (or nested callbacks) that may be inside Event::try_from_c
Threads == 1..MaxThreads

IdleCall ==
    [pc |-> "idle", tag |-> 0, sym_ptr |-> <<WideNul>>, rec |-> NULL, result |-> NULL]

EmptyFrame == [c_sym |-> <<>>, sym |-> <<>>, event_data |-> NULL]

(***************************************************************************)
(* The calls.  One call is made at a time, from the state in which none   *)
(* is in progress (op = "none").                                           *)
(***************************************************************************)
Init ==
    /\ op = "none"
    /\ event_type = 0
    /\ raw_sym = NULL
    /\ data = NULL
    /\ ret = NULL
    /\ derefs = <<>>
    /\ delivered = <<>>
    /\ writer = <<>>
    /\ errlog = <<>>
    /\ calls = [t \in Threads |-> IdleCall]
    /\ frames = [t \in Threads |-> EmptyFrame]

\* Event::try_from_c(event_type, raw_sym, data)
Call_try_from_c ==
    /\ op = "none"
    /\ \E tag \in CallbackTags, sym_ptr \in Buffers :
        \E rec \in RawRecords(tag) :
            /\ op' = "Event::try_from_c"
            /\ event_type' = tag
            /\ raw_sym' = sym_ptr
            /\ data' = rec
            /\ ret' = try_from_c(tag, sym_ptr, rec)
            /\ derefs' = try_from_c_derefs(tag, sym_ptr)
            /\ UNCHANGED <<stream_vars, thread_vars>>

\* EventData::try_get_event_data(event_type, data)
Call_try_get_event_data ==
    /\ op = "none"
    /\ \E tag \in CallbackTags :
        \E rec \in RawRecords(tag) :
            /\ op' = "EventData::try_get_event_data"
            /\ event_type' = tag
            /\ raw_sym' = NULL
            /\ data' = rec
            /\ ret' = try_get_event_data(tag, rec)
            /\ derefs' = try_get_event_data_derefs(tag)
            /\ UNCHANGED <<stream_vars, thread_vars>>

\* EventType::try_from(value)
Call_EventType_try_from ==
    /\ op = "none"
    /\ \E tag \in TagInputs :
        /\ op' = "EventType::try_from"
        /\ event_type' = tag
        /\ raw_sym' = NULL
        /\ data' = NULL
        /\ ret' = EventType_try_from(tag)
        /\ derefs' = <<>>
        /\ UNCHANGED <<stream_vars, thread_vars>>

\* EventType::to_string(value)
Call_EventType_to_string ==
    /\ op = "none"
    /\ \E tag \in TagInputs :
        /\ op' = "EventType::to_string"
        /\ event_type' = tag
        /\ raw_sym' = NULL
        /\ data' = NULL
        /\ ret' = EventType_to_string(tag)
        /\ derefs' = <<>>
        /\ UNCHANGED <<stream_vars, thread_vars>>

\* `kind as c_int` of an EventType
Call_EventType_as_c_int ==
    /\ op = "none"
    /\ \E kind \in EventType :
        /\ op' = "EventType as c_int"
        /\ event_type' = 0
        /\ raw_sym' = NULL
        /\ data' = kind
        /\ ret' = EventType_discriminant(kind)
        /\ derefs' = <<>>
        /\ UNCHANGED <<stream_vars, thread_vars>>

\* the caller is done with the value a call returned and drops it
Drop ==
    /\ op # "none"
    /\ op' = "none"
    /\ event_type' = 0
    /\ raw_sym' = NULL
    /\ data' = NULL
    /\ ret' = NULL
    /\ derefs' = <<>>
    /\ UNCHANGED <<stream_vars, thread_vars>>

\* nothing readable is left at an address the native library freed
Freed == <<>>

\* what a String reads as when its bytes are those of native memory that
\* was freed or overwritten
stale_texts(now) ==
    { U32CString_to_string_lossy(U32CString_from_ptr_str(b)) :
        b \in (IF now = Freed THEN Buffers ELSE {now}) }

\* the values an Ok(Event) can read as once the native memory it came from
\* has changed: itself, or, where it kept a pointer, what lies there now
after_reuse(result, kept, sym_now) ==
    IF kept = {} THEN {result}
    ELSE IF "raw_sym" \in kept
        THEN { [result EXCEPT !.val.sym = t] : t \in stale_texts(sym_now) }
    ELSE {result, NULL}

\* what the feed library may leave at the symbol's address once the
\* callback has returned: nothing, or the symbol of its next event
ReusedSymbols == {Freed, WideBeyond}

\* likewise at the record's address: nothing, or the bytes zeroed
ReusedRecords == {Freed, <<0>>}

\* the callback that made the call returns and the feed library frees or
\* reuses the memory its pointers referred to; the value the call returned
\* is still held (moved to a consumer)
Native_reuse ==
    /\ op = "Event::try_from_c"
    /\ op' = "Event::try_from_c returned"
    /\ event_type' = event_type
    /\ derefs' = derefs
    /\ raw_sym' \in ReusedSymbols
    /\ data' \in ReusedRecords
    /\ ret' \in after_reuse(ret, try_from_c_retains(event_type, ret), raw_sym')
    /\ UNCHANGED <<stream_vars, thread_vars>>

Next ==
    \/ Call_try_from_c
    \/ Call_try_get_event_data
    \/ Call_EventType_try_from
    \/ Call_EventType_to_string
    \/ Call_EventType_as_c_int
    \/ Drop

Spec == Init /\ [][Next]_vars

\* the calls of Event::try_from_c, each followed by the native library
\* taking its memory back
NextReuse ==
    \/ Call_try_from_c
    \/ Native_reuse
    \/ Drop

SpecReuse == Init /\ [][NextReuse]_vars

(***************************************************************************)
(* Order records whose union the producer filled through either            *)
(* alternative.  The converter's read through market_maker of a word that  *)
(* was stored as a number is undefined behaviour: the call returns with    *)
(* whatever text the scan found, or the process is killed.                 *)
(***************************************************************************)
\* EventData::try_get_event_data(DXF_ET_ORDER, data)
Call_try_get_event_data_order ==
    /\ op = "none"
    /\ \E rec \in OrderUnionRecords :
        /\ op' = "EventData::try_get_event_data"
        /\ event_type' = DXF_ET_ORDER
        /\ raw_sym' = NULL
        /\ data' = rec
        /\ derefs' = try_get_event_data_derefs(DXF_ET_ORDER)
        /\ ret' \in { try_get_event_data(DXF_ET_ORDER, r) : r \in order_as_read(rec) }
                        \cup scan_faults(rec)
        /\ UNCHANGED <<stream_vars, thread_vars>>

\* Event::try_from_c(DXF_ET_ORDER, raw_sym, data): the record is scanned
\* only when the call reads the union
Call_try_from_c_order ==
    /\ op = "none"
    /\ \E sym_ptr \in Buffers, rec \in OrderUnionRecords :
        LET trace == try_from_c_derefs(DXF_ET_ORDER, sym_ptr)
        IN  /\ op' = "Event::try_from_c"
            /\ event_type' = DXF_ET_ORDER
            /\ raw_sym' = sym_ptr
            /\ data' = rec
            /\ derefs' = trace
            /\ ret' \in { try_from_c(DXF_ET_ORDER, sym_ptr, r) : r \in order_as_read(rec) }
                    \cup (IF \E i \in 1..Len(trace) :
                                 trace[i].ptr = "data.bindgen_anon_1.market_maker"
                          THEN scan_faults(rec) ELSE {})
            /\ UNCHANGED <<stream_vars, thread_vars>>

NextUnion ==
    \/ Call_try_get_event_data_order
    \/ Call_try_from_c_order
    \/ Drop

SpecUnion == Init /\ [][NextUnion]_vars

(***************************************************************************)
(* Calls whose record pointer is null or dangling.  A call that reads      *)
(* through such a pointer is undefined behaviour: the process is killed,   *)
(* or the call converts whatever the memory there holds.  A call that does *)
(* not read through it returns what the code returns.                      *)
(***************************************************************************)
Dangling == [ptr |-> "dangling"]

StaleRecords == {NULL, Dangling}

\* whether a call with this trace of dereferences reads *data
reads_data(trace) == \E i \in 1..Len(trace) : trace[i].ptr = "data"

\* Event::try_from_c(event_type, raw_sym, data), data null or dangling
Call_try_from_c_stale ==
    /\ op = "none"
    /\ \E tag \in CallbackTags, sym_ptr \in Buffers, rec \in StaleRecords :
        LET trace == try_from_c_derefs(tag, sym_ptr)
        IN  /\ op' = "Event::try_from_c"
            /\ event_type' = tag
            /\ raw_sym' = sym_ptr
            /\ data' = rec
            /\ derefs' = trace
            /\ ret' \in IF reads_data(trace)
                         THEN {Segfault}
                                  \cup { try_from_c(tag, sym_ptr, r) : r \in RawRecords(tag) }
                         ELSE {try_from_c(tag, sym_ptr, rec)}
            /\ UNCHANGED <<stream_vars, thread_vars>>

\* EventData::try_get_event_data(event_type, data), data null or dangling
Call_try_get_event_data_stale ==
    /\ op = "none"
    /\ \E tag \in CallbackTags, rec \in StaleRecords :
        LET trace == try_get_event_data_derefs(tag)
        IN  /\ op' = "EventData::try_get_event_data"
            /\ event_type' = tag
            /\ raw_sym' = NULL
            /\ data' = rec
            /\ derefs' = trace
            /\ ret' \in IF reads_data(trace)
                         THEN {Segfault}
                                  \cup { try_get_event_data(tag, r) : r \in RawRecords(tag) }
                         ELSE {try_get_event_data(tag, rec)}
            /\ UNCHANGED <<stream_vars, thread_vars>>

NextStale ==
    \/ Call_try_from_c
    \/ Call_try_get_event_data
    \/ Call_try_from_c_stale
    \/ Call_try_get_event_data_stale
    \/ Drop

SpecStale == Init /\ [][NextStale]_vars

(***************************************************************************)
(* Overlapping invocations of Event::try_from_c (lib.rs 586-595), one      *)
(* statement at a time.  c_sym, sym and event_data are locals: each        *)
(* invocation has a frame of its own, and the function reads and writes    *)
(* nothing else (the library has no static).                               *)
(***************************************************************************)
\* frame_of giving every invocation the same storage, as a static would
frame_of_static(t) == 1

\* where invocation t keeps c_sym, sym and event_data: its own stack frame
frame_of(t) == t

\* invocation t is entered with the arguments of a callback
Enter_try_from_c(t) ==
    /\ calls[t].pc = "idle"
    /\ \E e \in SampleEvents :
        calls' = [calls EXCEPT ![t] =
                     [pc |-> "from_ptr_str", tag |-> e.tag, sym_ptr |-> e.sym_ptr,
                      rec |-> e.rec, result |-> NULL]]
    /\ frames' = [frames EXCEPT ![frame_of(t)] = EmptyFrame]
    /\ UNCHANGED <<call_vars, stream_vars>>

\* let c_sym = unsafe { U32CString::from_ptr_str(raw_sym as *const u32) };
Step_from_ptr_str(t) ==
    /\ calls[t].pc = "from_ptr_str"
    /\ frames' = [frames EXCEPT ![frame_of(t)].c_sym =
                      U32CString_from_ptr_str(calls[t].sym_ptr)]
    /\ calls' = [calls EXCEPT ![t].pc = "to_string"]
    /\ UNCHANGED <<call_vars, stream_vars>>

\* let sym = c_sym.to_string()?;
Step_to_string(t) ==
    /\ calls[t].pc = "to_string"
    /\ LET sym == U32CString_to_string(frames[frame_of(t)].c_sym)
       IN  IF ~sym.ok
           THEN /\ calls' = [calls EXCEPT ![t].pc = "done", ![t].result = Err(sym.err)]
                /\ UNCHANGED frames
           ELSE /\ calls' = [calls EXCEPT ![t].pc = "try_get_event_data"]
                /\ frames' = [frames EXCEPT ![frame_of(t)].sym = sym.val]
    /\ UNCHANGED <<call_vars, stream_vars>>

\* let event_data = EventData::try_get_event_data(event_type, data)?;
Step_try_get_event_data(t) ==
    /\ calls[t].pc = "try_get_event_data"
    /\ LET event_data == try_get_event_data(calls[t].tag, calls[t].rec)
       IN  IF ~event_data.ok
           THEN /\ calls' = [calls EXCEPT ![t].pc = "done",
                                          ![t].result = Err(event_data.err)]
                /\ UNCHANGED frames
           ELSE /\ calls' = [calls EXCEPT ![t].pc = "Event::new"]
                /\ frames' = [frames EXCEPT ![frame_of(t)].event_data = event_data.val]
    /\ UNCHANGED <<call_vars, stream_vars>>

\* Ok(Event::new(sym, event_data))
Step_Event_new(t) ==
    /\ calls[t].pc = "Event::new"
    /\ calls' = [calls EXCEPT
                    ![t].pc = "done",
                    ![t].result = Ok(Event_new(frames[frame_of(t)].sym,
                                               frames[frame_of(t)].event_data))]
    /\ UNCHANGED frames
    /\ UNCHANGED <<call_vars, stream_vars>>

\* the caller has taken the result; the frame is gone
Leave_try_from_c(t) ==
    /\ calls[t].pc = "done"
    /\ calls' = [calls EXCEPT ![t] = IdleCall]
    /\ frames' = [frames EXCEPT ![frame_of(t)] = EmptyFrame]
    /\ UNCHANGED <<call_vars, stream_vars>>

NextThreads ==
    \E t \in Threads :
        \/ Enter_try_from_c(t)
        \/ Step_from_ptr_str(t)
        \/ Step_to_string(t)
        \/ Step_try_get_event_data(t)
        \/ Step_Event_new(t)
        \/ Leave_try_from_c(t)

SpecThreads == Init /\ [][NextThreads]_vars

(***************************************************************************)
(* The sample listener (main.rs 17-31): the callback the feed library      *)
(* invokes once per event, on its own thread, one invocation after the     *)
(* other.                                                                  *)
(***************************************************************************)
\* the name serde gives a variant of EventData (externally tagged)
serde_variant_name(variant) ==
    CASE variant = "EventData::Trade" -> "Trade"
      [] variant = "EventData::Quote" -> "Quote"
      [] variant = "EventData::Summary" -> "Summary"
      [] variant = "EventData::Profile" -> "Profile"
      [] variant = "EventData::Order" -> "Order"
      [] variant = "EventData::TimeAndSale" -> "TimeAndSale"
      [] variant = "EventData::Candle" -> "Candle"
      [] variant = "EventData::TradeETH" -> "TradeETH"
      [] variant = "EventData::SpreadOrder" -> "SpreadOrder"
      [] variant = "EventData::Greeks" -> "Greeks"
      [] variant = "EventData::TheoPrice" -> "TheoPrice"
      [] variant = "EventData::Underlying" -> "Underlying"
      [] variant = "EventData::Series" -> "Series"
      [] variant = "EventData::Configuration" -> "Configuration"

\* serde_json::to_string(&evt): the object {"sym":..,"data":{Variant:..}},
\* as its tokens; the payload object is left as the payload
serde_json_to_string(evt) ==
    <<"{", "sym", ":", evt.sym, ",", "data", ":", "{",
      serde_variant_name(evt.data.variant), ":", evt.data.payload, "}", "}">>

\* format!("{:?}", e) of an Error; of widestring's Utf32Error the index
debug_fmt_Error(e) ==
    CASE e.type = "Invalid" -> "Invalid(" \o fmt_display_int(e.tag) \o ")"
      [] e.type = "Utf32Error" ->
            "Utf32Error(Utf32Error { index: " \o fmt_unsigned(e.index) \o " })"
      [] e.type = "Unknown" -> "Unknown"

\* evt_listener_stdout writing a line for an Err as well
evt_listener_stdout_for_err(result) ==
    IF result.ok THEN <<serde_json_to_string(result.val) \o <<"\n">> >>
    ELSE << <<debug_fmt_Error(result.err), "\n">> >>

\* what evt_listener writes to its writer for a result of try_from_c
evt_listener_stdout(result) ==
    IF result.ok THEN <<serde_json_to_string(result.val) \o <<"\n">> >>
    ELSE <<>>

\* what evt_listener writes to stderr for a result of try_from_c
evt_listener_stderr(result) ==
    IF result.ok THEN <<>>
    ELSE <<debug_fmt_Error(result.err) \o "\n">>

\* evt_listener(event_type, sym, data, _, writer_ptr)
evt_listener ==
    /\ Len(delivered) < MaxEvents
    /\ \E e \in SampleEvents :
        LET result == try_from_c(e.tag, e.sym_ptr, e.rec)
        IN  /\ delivered' = Append(delivered, e)
            /\ writer' = writer \o evt_listener_stdout(result)
            /\ errlog' = errlog \o evt_listener_stderr(result)
    /\ UNCHANGED <<call_vars, thread_vars>>

NextStream == evt_listener

SpecStream == Init /\ [][NextStream]_vars

(***************************************************************************)
(* What the claims expect, stated apart from the code.                     *)
(***************************************************************************)
\* the 14 kinds in native definition order and their display names
KindsInOrder ==
    <<"EventType::Trade", "EventType::Quote", "EventType::Summary",
      "EventType::Profile", "EventType::Order", "EventType::TimeAndSale",
      "EventType::Candle", "EventType::TradeETH", "EventType::SpreadOrder",
      "EventType::Greeks", "EventType::TheoPrice", "EventType::Underlying",
      "EventType::Series", "EventType::Configuration">>

NamesInOrder ==
    <<"Trade", "Quote", "Summary", "Profile", "Order", "TimeAndSale", "Candle",
      "TradeETH", "SpreadOrder", "Greeks", "TheoPrice", "Underlying", "Series",
      "Configuration">>

\* the 14 known tag values: one bit each, bit n for the n-th kind
KnownTags == {2 ^ (n - 1) : n \in 1..Len(KindsInOrder)}

\* the position (from 1) of the kind a known tag stands for
PositionOfTag(tag) == CHOOSE n \in 1..Len(KindsInOrder) : 2 ^ (n - 1) = tag

\* the tag of the kind at a position (from 1) of the native order
TagAt(n) == 2 ^ (n - 1)

\* the plain kinds: Trade, Quote, Summary, Candle, TradeETH, Greeks,
\* TheoPrice, Underlying, Series
PlainKnownTags ==
    {TagAt(1), TagAt(2), TagAt(3), TagAt(7), TagAt(8), TagAt(10), TagAt(11),
     TagAt(12), TagAt(13)}

\* the text-bearing kinds: Profile, Order, TimeAndSale, SpreadOrder,
\* Configuration
TextKnownTags == {TagAt(4), TagAt(5), TagAt(6), TagAt(9), TagAt(14)}

\* the units a terminated buffer holds before its terminator
RECURSIVE UnitsBeforeNul(_)
UnitsBeforeNul(buf) ==
    IF Head(buf) = 0 THEN <<>> ELSE <<Head(buf)>> \o UnitsBeforeNul(Tail(buf))

\* a code unit that is a code point of Unicode text
IsCodePoint(u) == u \in 0..55295 \/ u \in 57344..1114111

IsValidText(units) == \A i \in 1..Len(units) : IsCodePoint(units[i])

\* the units with U+FFFD in the place of each unit that is no code point
WithReplacement(units) ==
    [i \in 1..Len(units) |-> IF IsCodePoint(units[i]) THEN units[i] ELSE 65533]

\* the code points an owned String (UTF-8 bytes) spells
RECURSIVE CodePointsOf(_)
CodePointsOf(b) ==
    IF b = <<>> THEN <<>>
    ELSE IF b[1] < 128 THEN <<b[1]>> \o CodePointsOf(SubSeq(b, 2, Len(b)))
    ELSE IF b[1] < 224
        THEN <<(b[1] - 192) * 64 + (b[2] - 128)>> \o CodePointsOf(SubSeq(b, 3, Len(b)))
    ELSE IF b[1] < 240
        THEN <<(b[1] - 224) * 4096 + (b[2] - 128) * 64 + (b[3] - 128)>>
                 \o CodePointsOf(SubSeq(b, 4, Len(b)))
    ELSE <<(b[1] - 240) * 262144 + (b[2] - 128) * 4096 + (b[3] - 128) * 64
               + (b[4] - 128)>> \o CodePointsOf(SubSeq(b, 5, Len(b)))

\* the buffers the pointer fields of a raw record of a text-bearing kind
\* reference, by the name of the owned field each is decoded into
RawTexts(tag, rec) ==
    CASE tag = TagAt(4) ->
            [description |-> rec.description, status_reason |-> rec.status_reason]
      [] tag = TagAt(5) -> [mm_or_spread |-> rec.bindgen_anon_1.market_maker]
      [] tag = TagAt(6) ->
            [exchange_sale_conditions |-> rec.exchange_sale_conditions,
             buyer |-> rec.buyer, seller |-> rec.seller]
      [] tag = TagAt(9) -> [spread_symbol |-> rec.spread_symbol]
      [] tag = TagAt(14) -> [object |-> rec.object]

\* the raw flag fields of a TimeAndSale record
FlagFields == {"is_valid_tick", "is_eth_trade", "is_spread_leg"}

\* the non-text fields of a raw record of a text-bearing kind that are no
\* flag fields
RawScalars(tag) ==
    LET names == CASE tag = TagAt(4) -> profile_scalars
                   [] tag = TagAt(5) -> order_scalars
                   [] tag = TagAt(6) -> time_and_sale_scalars
                   [] tag = TagAt(9) -> spread_order_scalars
                   [] tag = TagAt(14) -> configuration_scalars
    IN  {names[i] : i \in 1..Len(names)}

\* the owned field a raw scalar field is copied into
OwnedName(f) == IF f = "type_" THEN "kind" ELSE f

\* a call that converts a record: the converter itself, or try_from_c on a
\* symbol that is valid text
Converts ==
    \/ op = "EventData::try_get_event_data"
    \/ op = "Event::try_from_c" /\ IsValidText(UnitsBeforeNul(raw_sym))

\* the payload a successful converting call produced
PayloadOf(r) ==
    IF op = "Event::try_from_c" THEN r.val.data.payload ELSE r.val.payload

(***************************************************************************)
(* Claims.                                                                 *)
(***************************************************************************)
\* C1: whenever Event::try_from_c succeeds, the kind of the payload variant
\* of the envelope it returns (by EventType::from, and by resolving
\* EventData::get_event_type) is the kind EventType::try_from resolves from
\* the tag that was passed.
C1_EnvelopeKindIsTagKind ==
    (op = "Event::try_from_c" /\ ret.ok) =>
        LET k == EventType_try_from(event_type)
        IN  /\ k.ok
            /\ EventType_from(ret.val.data) = k.val
            /\ EventType_try_from(get_event_type(ret.val.data)) = k

C1_Witness ==
    /\ op = "Event::try_from_c"
    /\ ret.ok
    /\ event_type = 2 ^ 7
    /\ ret.val.data.variant = "EventData::TradeETH"

\* C2: for each of the 14 kinds, resolving the kind's numeric tag gives the
\* kind back, no other kind has that tag, and a tag that resolves to a kind
\* is that kind's tag.
C2_KindTagRoundTrip ==
    /\ op = "EventType as c_int" =>
        /\ EventType_try_from(ret) = Ok(data)
        /\ \A kind \in EventType \ {data} : EventType_discriminant(kind) # ret
    /\ (op = "EventType::try_from" /\ ret.ok) =>
        EventType_discriminant(ret.val) = event_type

C2_Witness ==
    /\ op = "EventType as c_int"
    /\ data = "EventType::TheoPrice"
    /\ ret = 2 ^ 10

\* C3: EventType::try_from returns Err for every integer that is not one of
\* the 14 known tag values.
C3_UnknownTagIsErr ==
    (op = "EventType::try_from" /\ event_type \notin KnownTags) => ~ret.ok

C3_Witness ==
    /\ op = "EventType::try_from"
    /\ event_type = 2 ^ 0 + 2 ^ 1
    /\ ~ret.ok

\* C4: EventType::to_string returns the display name of the kind for each
\* of the 14 known tags and "<Unknown>(<tag>)", with the decimal value of
\* the tag, for every other integer.
C4_DescribeNameOrPlaceholder ==
    op = "EventType::to_string" =>
        IF event_type \in KnownTags
        THEN ret = NamesInOrder[PositionOfTag(event_type)]
        ELSE ret = "<Unknown>(" \o ToString(event_type) \o ")"

C4_Witness ==
    /\ op = "EventType::to_string"
    /\ event_type = -1
    /\ ret = "<Unknown>(-1)"

\* C5 (as claimed): whenever the tag passed to Event::try_from_c is not one
\* of the 14 known tags, the call fails with Invalid(tag).
C5_Original ==
    (op = "Event::try_from_c" /\ event_type \notin KnownTags) =>
        ret = [ok |-> FALSE, err |-> [type |-> "Invalid", tag |-> event_type]]

\* C5 (amended): when the tag passed to Event::try_from_c is not one of the
\* 14 known tags the call returns no Envelope; it fails with Invalid(tag),
\* carrying the tag passed, when the symbol is valid text, and with the
\* symbol's Utf32Error when it is not.
C5_UnknownTagFails ==
    (op = "Event::try_from_c" /\ event_type \notin KnownTags) =>
        /\ ~ret.ok
        /\ IF IsValidText(UnitsBeforeNul(raw_sym))
           THEN ret.err = [type |-> "Invalid", tag |-> event_type]
           ELSE ret.err.type = "Utf32Error"

C5_Witness ==
    /\ op = "Event::try_from_c"
    /\ event_type = TagAt(1) + TagAt(2)
    /\ raw_sym = <<65, 65, 80, 76, 0>>
    /\ ret.err = [type |-> "Invalid", tag |-> 3]

C7_InvalidSymbolIsOneError ==
    op = "Event::try_from_c" =>
        /\ ~IsValidText(UnitsBeforeNul(raw_sym)) =>
               (~ret.ok /\ ret.err.type = "Utf32Error")
        /\ IF ret.ok
           THEN /\ DOMAIN ret = {"ok", "val"}
                /\ DOMAIN ret.val = {"sym", "data"}
                /\ CodePointsOf(ret.val.sym) = UnitsBeforeNul(raw_sym)
                /\ DOMAIN ret.val.data = {"variant", "payload"}
           ELSE /\ DOMAIN ret = {"ok", "err"}
                /\ ret.err.type \in {"Invalid", "Utf32Error"}

C7_Witness ==
    /\ op = "Event::try_from_c"
    /\ event_type = TagAt(2)
    /\ raw_sym = <<76, 1114112, 65, 0>>
    /\ ~ret.ok
    /\ ret.err = [type |-> "Utf32Error", index |-> 1]

\* C8 (as claimed): in the TimeAndSale conversion each of is_valid_tick,
\* is_eth_trade and is_spread_leg decodes to true exactly when the raw
\* value is nonzero, negative values included.
C8_FlagTrueIffNonzero ==
    (Converts /\ event_type = TagAt(6)) =>
        \A f \in FlagFields : PayloadOf(ret)[f] = (data[f] # 0)

\* C9: for every plain kind, converting a record of arbitrary scalar values
\* succeeds and yields the payload of that kind with every field identical
\* to the record's.
C9_PlainIsCopied ==
    (Converts /\ event_type \in PlainKnownTags) =>
        /\ ret.ok
        /\ LET ed == IF op = "Event::try_from_c" THEN ret.val.data ELSE ret.val
           IN  /\ ed.variant
                     = "EventData::" \o NamesInOrder[PositionOfTag(event_type)]
               /\ ed.payload = data

C9_Witness ==
    /\ op = "EventData::try_get_event_data"
    /\ event_type = TagAt(7)
    /\ data[1] = -1
    /\ ret.ok
    /\ ret.val = [variant |-> "EventData::Candle", payload |-> data]

C11_OrderUnionReadAsMarketMaker ==
    (op \in {"EventData::try_get_event_data", "Event::try_from_c"}
        /\ event_type = TagAt(5) /\ "ok" \in DOMAIN ret)
    => /\ op = "EventData::try_get_event_data" => ret.ok
       /\ ret.ok =>
            /\ DOMAIN PayloadOf(ret) = RawScalars(TagAt(5)) \cup {"mm_or_spread"}
            /\ \E seen \in wide_in_memory(data.bindgen_anon_1.market_maker) :
                   CodePointsOf(PayloadOf(ret).mm_or_spread)
                       = WithReplacement(UnitsBeforeNul(seen))

\* an Order whose union was populated through spread_leg was converted and
\* the payload carries the text found behind the number read as a pointer
C11_Witness ==
    /\ op = "EventData::try_get_event_data"
    /\ event_type = TagAt(5)
    /\ data.bindgen_anon_1.populated = "spread_leg"
    /\ data.bindgen_anon_1.spread_leg = 1
    /\ "ok" \in DOMAIN ret
    /\ ret.ok
    /\ CodePointsOf(ret.val.payload.mm_or_spread) = <<65>>

\* the 14 tag constants in the order lib.rs defines them
TagConstantsInOrder ==
    <<DXF_ET_TRADE, DXF_ET_QUOTE, DXF_ET_SUMMARY, DXF_ET_PROFILE, DXF_ET_ORDER,
      DXF_ET_TIME_AND_SALE, DXF_ET_CANDLE, DXF_ET_TRADE_ETH, DXF_ET_SPREAD_ORDER,
      DXF_ET_GREEKS, DXF_ET_THEO_PRICE, DXF_ET_UNDERLYING, DXF_ET_SERIES,
      DXF_ET_CONFIGURATION>>

\* the positions (from 0) of the bits set in a tag that is not negative
BitsOfTag(tag) == {i \in 0..30 : (tag \div 2 ^ i) % 2 = 1}

\* a 32 bit tag with a bit set at or above the position of the kind count
HasUnusedBit(tag) == tag < 0 \/ tag >= 2 ^ Len(KindsInOrder)

\* C12: the tag of the kind at position N (from 0) of the native order is
\* 1 << N, as a constant and as the value of `kind as c_int`; the 14 tags are
\* pairwise distinct, one bit each; DXF_ET_UNUSED has exactly the bits 14..31
\* set and shares none with a tag; EventType::try_from resolves neither the
\* mask nor any other value with one of those bits set.
C12_TagsAreBitFlags ==
    /\ Len(TagConstantsInOrder) = Len(KindsInOrder)
    /\ \A n \in 1..Len(KindsInOrder) :
        /\ TagConstantsInOrder[n] = 2 ^ (n - 1)
        /\ BitsOfTag(TagConstantsInOrder[n]) = {n - 1}
        /\ BitsOfTag(TagConstantsInOrder[n]) \cap DXF_ET_UNUSED = {}
        /\ \A m \in 1..Len(KindsInOrder) :
               m # n => TagConstantsInOrder[m] # TagConstantsInOrder[n]
    /\ DXF_ET_UNUSED = Len(KindsInOrder)..31
    /\ op = "EventType as c_int"
        => \E n \in 1..Len(KindsInOrder) :
               data = KindsInOrder[n] /\ ret = 2 ^ (n - 1)
    /\ (op = "EventType::try_from" /\ HasUnusedBit(event_type)) => ~ret.ok

\* EventType::try_from was given the unused mask, read as the c_int it is
\* matched as, and did not resolve it
C12_Witness ==
    /\ op = "EventType::try_from"
    /\ event_type = -16384
    /\ ~ret.ok

C14_ResultIsOfOwnInputs ==
    \A t \in Threads :
        calls[t].pc = "done"
            => calls[t].result
                   = try_from_c(calls[t].tag, calls[t].sym_ptr, calls[t].rec)

\* one invocation returned an Envelope while another, on a malformed event,
\* was between its statements
C14_Witness ==
    /\ calls[1].pc = "done"
    /\ calls[1].result.ok
    /\ calls[1].result.val.sym = <<65, 65, 80, 76>>
    /\ calls[2].pc = "to_string"
    /\ calls[2].sym_ptr = <<76, 1114112, 65, 0>>

\* a callback that carries a well-formed event: a known tag and a symbol
\* that is valid text
WellFormed(e) == e.tag \in KnownTags /\ IsValidText(UnitsBeforeNul(e.sym_ptr))

\* C15: after any sequence of callbacks the listener has written one output
\* line for each well-formed event, in callback order, each naming that
\* event's symbol and kind, and one log line and no output line for each
\* callback whose conversion failed; a failure stops nothing after it.
C15_MalformedEventIsDroppedOnly ==
    LET good == SelectSeq(delivered, WellFormed)
        bad == SelectSeq(delivered, LAMBDA e : ~WellFormed(e))
    IN  /\ Len(writer) = Len(good)
        /\ Len(errlog) = Len(bad)
        /\ \A k \in 1..Len(good) :
            /\ CodePointsOf(writer[k][4]) = UnitsBeforeNul(good[k].sym_ptr)
            /\ writer[k][9] = NamesInOrder[PositionOfTag(good[k].tag)]
            /\ writer[k][Len(writer[k])] = "\n"

\* an unknown tag, then a symbol that is no text, then a well-formed Quote:
\* two log lines, and the Quote's line was written
C15_Witness ==
    /\ Len(delivered) = 3
    /\ delivered[1].tag = 0
    /\ delivered[2].sym_ptr = <<76, 1114112, 65, 0>>
    /\ delivered[3].tag = 2
    /\ delivered[3].sym_ptr = <<65, 65, 80, 76, 0>>
    /\ Len(errlog) = 2
    /\ Len(writer) = 1
    /\ writer[1][9] = "Quote"

\* C16: Event::try_from_c decodes the symbol first: the symbol pointer is
\* the first pointer read, a symbol that is no valid text gives Utf32Error
\* whether or not the tag is known, Invalid(tag) is returned only for an
\* unknown tag whose symbol decoded, and an Envelope only when both steps
\* succeeded.
C16_SymbolErrorComesFirst ==
    op = "Event::try_from_c"
    => LET text == IsValidText(UnitsBeforeNul(raw_sym))
       IN  /\ derefs[1].ptr = "raw_sym"
           /\ \A i \in 2..Len(derefs) : derefs[i].ptr # "raw_sym"
           /\ ~text => ~ret.ok /\ ret.err.type = "Utf32Error"
           /\ (~ret.ok /\ ret.err.type = "Invalid")
                  => text /\ event_type \notin KnownTags /\ ret.err.tag = event_type
           /\ (text /\ event_type \notin KnownTags)
                  => ~ret.ok /\ ret.err.type = "Invalid"
           /\ ret.ok <=> (text /\ event_type \in KnownTags)

\* the symbol is no valid text and the tag is unknown: Utf32Error came back
C16_Witness ==
    /\ op = "Event::try_from_c"
    /\ raw_sym = <<55296, 0>>
    /\ event_type = 3
    /\ ~ret.ok
    /\ ret.err.type = "Utf32Error"
    /\ ret.err.index = 0

\* the native record type of each kind, in the native order of the kinds
LayoutsInOrder ==
    <<"dxf_trade_t", "dxf_quote_t", "dxf_summary_t", "dxf_profile_t", "dxf_order_t",
      "dxf_time_and_sale_t", "dxf_candle_t", "dxf_trade_eth_t", "dx_spread_order",
      "dxf_greeks_t", "dxf_theo_price_t", "dxf_underlying_t", "dxf_series_t",
      "dxf_configuration_t">>

\* the positions of a trace at which the record pointer, or a pointer taken
\* from the record, is read
RecordReads(trace) == {i \in 1..Len(trace) : trace[i].ptr # "raw_sym"}

\* C17: a call reads the record pointer only when the tag is one of the 14
\* known tags, and then as the record type of that tag's kind; when
\* Event::try_from_c fails on the symbol or on the tag (and when
\* try_get_event_data fails on the tag) nothing is read through the record
\* pointer, so with a null or dangling record pointer the call still
\* returns its error; the process is killed only by a call that reads it.
C17_RecordReadOnlyForKnownTag ==
    op \in {"Event::try_from_c", "EventData::try_get_event_data"}
    => /\ \A i \in 1..Len(derefs) :
             derefs[i].ptr = "data"
                 => /\ event_type \in KnownTags
                    /\ derefs[i].layout = LayoutsInOrder[PositionOfTag(event_type)]
       /\ RecordReads(derefs) # {}
             => \E i \in RecordReads(derefs) :
                    derefs[i].ptr = "data" /\ \A j \in RecordReads(derefs) : i <= j
       /\ event_type \notin KnownTags
             => RecordReads(derefs) = {} /\ "ok" \in DOMAIN ret /\ ~ret.ok
       /\ (op = "Event::try_from_c" /\ ~IsValidText(UnitsBeforeNul(raw_sym)))
             => RecordReads(derefs) = {} /\ "ok" \in DOMAIN ret /\ ~ret.ok
       /\ "ok" \notin DOMAIN ret => RecordReads(derefs) # {}

\* a Profile event with a symbol that is no text and a null record pointer:
\* the call returned the symbol's error and read the symbol only
C17_Witness ==
    /\ op = "Event::try_from_c"
    /\ event_type = 8
    /\ raw_sym = <<76, 1114112, 65, 0>>
    /\ data = NULL
    /\ derefs = <<[ptr |-> "raw_sym", layout |-> "u32"]>>
    /\ "ok" \in DOMAIN ret
    /\ ~ret.ok
    /\ ret.err.type = "Utf32Error"

====
